---- MODULE Spec2Model ----
(***************************************************************************)
(* Model of actix_lambda_http (src/src/lib.rs): the closure                *)
(* lambda_http_handler built by LambdaHttpServer::start, which turns one   *)
(* lambda_http::Request into a call of the wrapped actix service and the   *)
(* service's reply into one lambda_http::Response, plus read_body and the  *)
(* percent-encoding of the query string parameters.                        *)
(*                                                                         *)
(* Text is modelled as sequences of bytes (ASCII codes), so that percent   *)
(* encoding and UTF-8 validation are computed, not assumed.                *)
(***************************************************************************)
EXTENDS Integers, Sequences, FiniteSets, TLC

VARIABLES
    pc,            \* position of the adapter thread inside start / the handler
    cfg,           \* self.binary_media_type_fn, as configured by the builder
    req,           \* the lambda_http::Request owned by the handler
    actix_req,     \* the actix_http::Request built from it
    user_resp,     \* result of rt.block_on(service.call(actix_req))
    actix_err,     \* the actix_web::Error handed to unwrap_or_else
    actix_resp,    \* Response<Bytes> after the and_then / unwrap_or_else chain
    content_type,  \* the &str passed to binary_media_type_fn
    is_binary,     \* what binary_media_type_fn returned
    result,        \* what the handler returned for the current event
    trace,         \* stages the current invocation has gone through, in order
    delivered      \* number of events the runtime has handed to the handler

vars == << pc, cfg, req, actix_req, user_resp, actix_err, actix_resp,
           content_type, is_binary, result, trace, delivered >>

\* ------------------------------------------------------------------ bounds

\* Largest number of chunks a response body yields before it ends.
MaxChunks == 2

\* Largest number of chunks the body of a rendered error response yields.
MaxErrorChunks == 1

\* Largest number of events the runtime delivers to one adapter instance.
MaxEvents == 2

\* ------------------------------------------------------- sequences of bytes

RECURSIVE Concat(_)
\* Concatenation of a sequence of byte sequences.
Concat(ss) == IF ss = << >> THEN << >> ELSE Head(ss) \o Concat(Tail(ss))

SeqsUpTo(S, n) == UNION { [1..k -> S] : k \in 0..n }

\* Number of occurrences of x in the sequence s.
Count(s, x) == Cardinality({ i \in 1..Len(s) : s[i] = x })

\* Position of the first occurrence of x in s, 0 when there is none.
FirstIndex(s, x) ==
    IF \E i \in 1..Len(s) : s[i] = x
    THEN CHOOSE i \in 1..Len(s) : s[i] = x /\ \A j \in 1..(i - 1) : s[j] # x
    ELSE 0

\* ------------------------------------------------------- percent encoding

\* percent_encoding::SIMPLE_ENCODE_SET: C0 controls and everything above '~'.
SIMPLE_ENCODE_SET(b) == b < 32 \/ b > 126

\* percent_encoding::QUERY_ENCODE_SET = [SIMPLE_ENCODE_SET] | {' ', '"', '#', '<', '>'}.
QUERY_ENCODE_SET(b) == SIMPLE_ENCODE_SET(b) \/ b \in {32, 34, 35, 60, 62}

\* enc_set::URL_ENCODE = [QUERY_ENCODE_SET] | {'%'}.
URL_ENCODE(b) == QUERY_ENCODE_SET(b) \/ b = 37

\* ASCII code of the upper-case hexadecimal digit of n (0..15).
HexDigit(n) == IF n < 10 THEN 48 + n ELSE 55 + n

\* percent_encoding::percent_encode_byte: "%XX".
percent_encode_byte(b) == << 37, HexDigit(b \div 16), HexDigit(b % 16) >>

RECURSIVE utf8_percent_encode(_)
\* utf8_percent_encode(s, enc_set::URL_ENCODE), written out by Display.
utf8_percent_encode(s) ==
    IF s = << >> THEN << >>
    ELSE (IF URL_ENCODE(Head(s)) THEN percent_encode_byte(Head(s)) ELSE << Head(s) >>)
         \o utf8_percent_encode(Tail(s))

RECURSIVE WriteQuery(_, _, _)
\* The loop over query_params.iter().enumerate(): appends "{sep}{key}={value}" to path.
WriteQuery(path, query_params, i) ==
    IF i > Len(query_params) THEN path
    ELSE WriteQuery(path \o << (IF i = 1 THEN 63 ELSE 38) >>
                         \o utf8_percent_encode(query_params[i][1])
                         \o << 61 >>
                         \o utf8_percent_encode(query_params[i][2]),
                    query_params, i + 1)

\* let mut path = req.uri().path().to_string(); ...; builder.path_and_query(path)
PathAndQuery(path, query_params) == WriteQuery(path, query_params, 1)

\* ------------------------------------------------------------ read_body

RECURSIVE FoldChunks(_, _)
\* Stream::fold(BytesMut::new(), |mut x, y| { x.extend_from_slice(&y); Ok(x) })
FoldChunks(x, chunks) ==
    IF chunks = << >> THEN x ELSE FoldChunks(x \o Head(chunks), Tail(chunks))

\* Variant of read_body that returns the bytes folded so far when the stream fails.
read_body_Partial(body) == [ok |-> TRUE, bytes |-> FoldChunks(<< >>, body.chunks)]

\* read_body(rt, body): the folded bytes, or the stream's error (the accumulator is dropped).
read_body(body) ==
    IF body.fails
    THEN [ok |-> FALSE, bytes |-> << >>]
    ELSE [ok |-> TRUE, bytes |-> FoldChunks(<< >>, body.chunks)]

\* ------------------------------------------------------- String::from_utf8

IsCont(b) == b >= 128 /\ b <= 191

RECURSIVE ValidUtf8From(_, _)
\* core::str::from_utf8 validation of v[i..].
ValidUtf8From(v, i) ==
    IF i > Len(v) THEN TRUE
    ELSE LET b == v[i]
             c(k) == IF i + k <= Len(v) THEN v[i + k] ELSE 0
         IN  IF b < 128 THEN ValidUtf8From(v, i + 1)
             ELSE IF b >= 194 /\ b <= 223
                  THEN IsCont(c(1)) /\ ValidUtf8From(v, i + 2)
             ELSE IF b >= 224 /\ b <= 239
                  THEN /\ IF b = 224 THEN c(1) >= 160 /\ c(1) <= 191
                          ELSE IF b = 237 THEN c(1) >= 128 /\ c(1) <= 159
                          ELSE IsCont(c(1))
                       /\ IsCont(c(2))
                       /\ ValidUtf8From(v, i + 3)
             ELSE IF b >= 240 /\ b <= 244
                  THEN /\ IF b = 240 THEN c(1) >= 144 /\ c(1) <= 191
                          ELSE IF b = 244 THEN c(1) >= 128 /\ c(1) <= 143
                          ELSE IsCont(c(1))
                       /\ IsCont(c(2))
                       /\ IsCont(c(3))
                       /\ ValidUtf8From(v, i + 4)
             ELSE FALSE

\* Variant of from_utf8 that decodes lossily (String::from_utf8_lossy): invalid
\* input becomes U+FFFD instead of an error.
from_utf8_lossy(vec) ==
    IF ValidUtf8From(vec, 1) THEN [ok |-> TRUE, string |-> vec]
    ELSE [ok |-> TRUE, string |-> << 239, 191, 189 >>]

\* String::from_utf8(vec): Ok(the same bytes as a String) or Err(FromUtf8Error).
from_utf8(vec) ==
    IF ValidUtf8From(vec, 1) THEN [ok |-> TRUE, string |-> vec]
    ELSE [ok |-> FALSE, string |-> << >>]

\* ------------------------------------------------------------ header maps

\* Absent Option<&str> of uri().scheme_part() / authority_part().
NoPart == "<none>"

\* HeaderMap::get(name): the set holding the value, empty when the header is absent.
HeaderGet(headers, name) == { h[2] : h \in { x \in headers : x[1] = name } }

\* Variant of to_str that converts lossily instead of failing.
to_str_Lossy(value) == { value.raw }

\* HeaderValue::to_str().ok(): the string when every byte is visible ASCII.
to_str(value) == IF value.visible THEN { value.raw } ELSE { }

\* headers().get(CONTENT_TYPE).and_then(|value| value.to_str().ok()).unwrap_or("")
ContentTypeOf(headers) ==
    LET strs == UNION { to_str(v) : v \in HeaderGet(headers, "content-type") }
    IN  IF strs = { } THEN "" ELSE CHOOSE s \in strs : TRUE

\* ------------------------------------------------- binary_media_type_fn

\* LambdaHttpServer::new: Box::new(|_| false).
DefaultFn == [kind |-> "default", types |-> << >>]

\* binary_media_type_fn(value): a caller-supplied FnMut(&str) -> bool.
CustomFn == [kind |-> "fn", types |-> << >>]

\* binary_media_types(value): move |ty| types.iter().any(|e| ty == e).
TypesFn(types) == [kind |-> "types", types |-> types]

\* Variant of CallPredicate whose list predicate uses all() instead of any().
CallPredicate_All(f, ty) ==
    IF f.kind = "default" THEN { FALSE }
    ELSE IF f.kind = "types" THEN { \A i \in 1..Len(f.types) : ty = f.types[i] }
    ELSE BOOLEAN

\* Variant of CallPredicate whose default predicate is |_| true.
CallPredicate_DefaultTrue(f, ty) ==
    IF f.kind = "default" THEN { TRUE }
    ELSE IF f.kind = "types" THEN { \E i \in 1..Len(f.types) : ty = f.types[i] }
    ELSE BOOLEAN

\* The values a call binary_media_type_fn(ty) can return.
CallPredicate(f, ty) ==
    IF f.kind = "default" THEN { FALSE }
    ELSE IF f.kind = "types" THEN { \E i \in 1..Len(f.types) : ty = f.types[i] }
    ELSE BOOLEAN

\* ------------------------------------------------------------ input values

\* Lists the caller passes to binary_media_types.
TypeLists ==
    { << >>, << "application/octet-stream" >>,
      << "image/png", "application/octet-stream" >> }

\* "/items"
ItemsPath == << 47, 105, 116, 101, 109, 115 >>

\* Query string parameters of the modelled events:
\* none; [("q","a b"),("q","c&d")]; [("%","a=#")].
QueryLists ==
    { << >>,
      << << <<113>>, <<97, 32, 98>> >>, << <<113>>, <<99, 38, 100>> >> >>,
      << << <<37>>, <<97, 61, 35>> >> >> }

\* LambdaBody of the event: Empty, Text("a"), Binary([0xFF]).
EventBodies ==
    { [kind |-> "Empty", data |-> << >>],
      [kind |-> "Text", data |-> << 97 >>],
      [kind |-> "Binary", data |-> << 255 >>] }

EventHeaders == { <<"host", [raw |-> "api.example.com", visible |-> TRUE]>> }

\* The lambda_http::Request values the invocation source delivers.
Events ==
    [ method : { "GET" },
      scheme : { "https", NoPart },
      authority : { "api.example.com", NoPart },
      path : { ItemsPath },
      query : QueryLists,
      headers : { EventHeaders },
      body : EventBodies ]

\* Chunks a body producer yields: empty, "A", and the two halves of U+00E9
\* (0xC3 0xA9), each of which is invalid UTF-8 on its own.
Chunks == { << >>, << 65 >>, << 195 >>, << 169 >> }

\* MessageBody values: the chunks yielded, then end of stream or an error.
BodiesUpTo(n) == [ chunks : SeqsUpTo(Chunks, n), fails : BOOLEAN ]

RespHeaders ==
    { { },
      { <<"content-type", [raw |-> "text/plain", visible |-> TRUE]>> },
      { <<"content-type", [raw |-> "application/octet-stream", visible |-> TRUE]>> },
      { <<"content-type", [raw |-> "text/caf\\xE9", visible |-> FALSE]>> } }

\* Response<B> values of the wrapped service and of ResponseError::render_response.
ResponsesUpTo(n) ==
    [ status : { 200, 500 }, headers : RespHeaders, body : BodiesUpTo(n) ]

\* Response<B> values the wrapped service returns.
Responses == ResponsesUpTo(MaxChunks)

\* actix_web::Error values (of the service or of a body stream), told apart by
\* the response they render into.
Errors == [ renders : ResponsesUpTo(MaxErrorChunks) ]

\* ResponseError::render_response of an error.
render_response(e) == e.renders

\* ---------------------------------------------------------- initial values

NoBody == [chunks |-> << >>, fails |-> FALSE]

NoResponse == [status |-> 0, headers |-> { }, body |-> NoBody]

NoEvent ==
    [ method |-> "", scheme |-> NoPart, authority |-> NoPart, path |-> << >>,
      query |-> << >>, headers |-> { }, body |-> [kind |-> "Empty", data |-> << >>] ]

NoRequest ==
    [ method |-> "", headers |-> { },
      uri |-> [scheme |-> NoPart, authority |-> NoPart, path_and_query |-> << >>],
      payload |-> << >> ]

NoUserResp == [ok |-> FALSE, resp |-> NoResponse, err |-> [renders |-> NoResponse]]

NoError == [renders |-> NoResponse]

\* The error a body stream yields while it is drained. What it renders into
\* is not known before render_response is called on it.
StreamError ==
    [renders |-> [status |-> 0, headers |-> { },
                  body |-> [chunks |-> << >>, fails |-> TRUE]]]

NoBytesResp == [status |-> 0, headers |-> { }, body |-> << >>]

NoResult ==
    [ kind |-> "none", status |-> 0, headers |-> { },
      body |-> [kind |-> "Empty", data |-> << >>] ]

\* LambdaHttpServer::new(app_factory)
Init ==
    /\ pc = "Built"
    /\ cfg = DefaultFn
    /\ req = NoEvent
    /\ actix_req = NoRequest
    /\ user_resp = NoUserResp
    /\ actix_err = NoError
    /\ actix_resp = NoBytesResp
    /\ content_type = ""
    /\ is_binary = FALSE
    /\ result = NoResult
    /\ trace = << >>
    /\ delivered = 0

\* -------------------------------------------------------------- the builder

\* LambdaHttpServer::binary_media_type_fn(self, value)
SetBinaryMediaTypeFn ==
    /\ pc = "Built"
    /\ UNCHANGED delivered
    /\ cfg # CustomFn
    /\ cfg' = CustomFn
    /\ UNCHANGED << pc, req, actix_req, user_resp, actix_err, actix_resp,
                    content_type, is_binary, result, trace >>

\* LambdaHttpServer::binary_media_types(self, value)
SetBinaryMediaTypes ==
    /\ pc = "Built"
    /\ UNCHANGED delivered
    /\ \E types \in TypeLists :
          /\ cfg # TypesFn(types)
          /\ cfg' = TypesFn(types)
    /\ UNCHANGED << pc, req, actix_req, user_resp, actix_err, actix_resp,
                    content_type, is_binary, result, trace >>

\* LambdaHttpServer::start up to lambda!(lambda_http_handler): runtime and service are set up.
Start ==
    /\ pc = "Built"
    /\ UNCHANGED delivered
    /\ pc' = "Idle"
    /\ UNCHANGED << cfg, req, actix_req, user_resp, actix_err, actix_resp,
                    content_type, is_binary, result, trace >>

\* -------------------------------------------------------------- the handler

\* Variant of Receive in which the next event is taken while the service call
\* of the current one is still pending (the call spawned instead of blocked on).
Receive_Overlapping ==
    /\ pc \in { "Idle", "Done", "Called" }
    /\ delivered < MaxEvents
    /\ delivered' = delivered + 1
    /\ \E ev \in Events : req' = ev
    /\ pc' = "Received"
    /\ actix_req' = NoRequest
    /\ user_resp' = NoUserResp
    /\ actix_err' = NoError
    /\ actix_resp' = NoBytesResp
    /\ content_type' = ""
    /\ is_binary' = FALSE
    /\ result' = NoResult
    /\ trace' = << >>
    /\ UNCHANGED cfg

\* The runtime calls lambda_http_handler(req, _ctx) with the next event.
Receive ==
    /\ pc \in { "Idle", "Done" }
    /\ delivered < MaxEvents
    /\ delivered' = delivered + 1
    /\ \E ev \in Events : req' = ev
    /\ pc' = "Received"
    /\ actix_req' = NoRequest
    /\ user_resp' = NoUserResp
    /\ actix_err' = NoError
    /\ actix_resp' = NoBytesResp
    /\ content_type' = ""
    /\ is_binary' = FALSE
    /\ result' = NoResult
    /\ trace' = << >>
    /\ UNCHANGED cfg

\* The event body after replace(text, String::new()) / replace(bytes, Vec::new()).
TakenBody(body) == [kind |-> body.kind, data |-> << >>]

\* Variant of TakenEvent that also moves the query string parameters out.
TakenEvent_TakesQuery(ev) ==
    [ev EXCEPT !.body = TakenBody(ev.body), !.headers = { }, !.query = << >>]

\* The event once the handler has moved its body and its headers out of it.
TakenEvent(ev) == [ev EXCEPT !.body = TakenBody(ev.body), !.headers = { }]

\* Variant of BuildRequest that substitutes a default origin for a missing one
\* (unwrap_or instead of unwrap).
BuildRequest_DefaultOrigin(ev) ==
    [ ok |-> TRUE,
      request |->
          [ method |-> ev.method,
            headers |-> ev.headers,
            uri |-> [ scheme |-> IF ev.scheme = NoPart THEN "https" ELSE ev.scheme,
                      authority |-> IF ev.authority = NoPart THEN "localhost"
                                    ELSE ev.authority,
                      path_and_query |-> PathAndQuery(ev.path, ev.query) ],
            payload |-> ev.body.data ] ]

\* Payload, head and URI of the actix request built from an event; not ok
\* when unwrap() panics for want of a scheme or an authority.
BuildRequest(ev) ==
    IF ev.scheme = NoPart \/ ev.authority = NoPart
    THEN [ok |-> FALSE, request |-> NoRequest]
    ELSE [ ok |-> TRUE,
           request |->
               [ method |-> ev.method,
                 headers |-> ev.headers,
                 uri |-> [ scheme |-> ev.scheme,
                           authority |-> ev.authority,
                           path_and_query |-> PathAndQuery(ev.path, ev.query) ],
                 payload |-> ev.body.data ] ]

\* The handler up to the reconstructed URI: the actix request is built and the
\* event is left without body and headers; the handler panics on a missing origin.
Normalize ==
    /\ pc = "Received"
    /\ UNCHANGED delivered
    /\ req' = TakenEvent(req)
    /\ IF BuildRequest(req).ok
       THEN /\ pc' = "Normalized"
            /\ actix_req' = BuildRequest(req).request
            /\ trace' = Append(trace, "normalize")
       ELSE /\ pc' = "Panicked"
            /\ trace' = Append(trace, "panic")
            /\ UNCHANGED actix_req
    /\ UNCHANGED << cfg, user_resp, actix_err, actix_resp, content_type,
                    is_binary, result >>

\* Variant of Call that does not wait for the request to be built.
Call_Early ==
    /\ pc \in { "Received", "Normalized" }
    /\ UNCHANGED delivered
    /\ \/ \E r \in Responses :
             user_resp' = [ok |-> TRUE, resp |-> r, err |-> NoError]
       \/ \E e \in Errors :
             user_resp' = [ok |-> FALSE, resp |-> NoResponse, err |-> e]
    /\ pc' = "Called"
    /\ trace' = Append(trace, "call")
    /\ UNCHANGED << cfg, req, actix_req, actix_err, actix_resp, content_type,
                    is_binary, result >>

\* let user_resp = rt.block_on(service.call(actix_req));
Call ==
    /\ pc = "Normalized"
    /\ UNCHANGED delivered
    /\ \/ \E r \in Responses :
             user_resp' = [ok |-> TRUE, resp |-> r, err |-> NoError]
       \/ \E e \in Errors :
             user_resp' = [ok |-> FALSE, resp |-> NoResponse, err |-> e]
    /\ pc' = "Called"
    /\ trace' = Append(trace, "call")
    /\ UNCHANGED << cfg, req, actix_req, actix_err, actix_resp, content_type,
                    is_binary, result >>

\* user_resp once the chain has consumed it: the success response is gone,
\* Ok / Err and the service's error are remembered.
Moved(r) == [r EXCEPT !.resp = NoResponse]

\* Variant of AndThen in which a failed drain of the success body leaves the
\* handler at once with that error (the chain ending in `?` instead of
\* unwrap_or_else).
AndThen_Propagate ==
    /\ pc = "Called"
    /\ UNCHANGED delivered
    /\ IF user_resp.ok
       THEN LET resp_bytes == read_body(user_resp.resp.body)
            IN  IF resp_bytes.ok
                THEN /\ actix_resp' = [ status |-> user_resp.resp.status,
                                        headers |-> user_resp.resp.headers,
                                        body |-> resp_bytes.bytes ]
                     /\ pc' = "Materialized"
                     /\ trace' = Append(trace, "drain")
                     /\ UNCHANGED << actix_err, result >>
                ELSE /\ actix_err' = StreamError
                     /\ pc' = "Done"
                     /\ trace' = trace \o << "drain", "error" >>
                     /\ result' = [result EXCEPT !.kind = "error"]
                     /\ UNCHANGED actix_resp
       ELSE /\ actix_err' = user_resp.err
            /\ pc' = "Failed"
            /\ UNCHANGED << actix_resp, trace, result >>
    /\ user_resp' = Moved(user_resp)
    /\ UNCHANGED << cfg, req, actix_req, content_type, is_binary >>

\* .map_err(Into::into).and_then(|success_user_resp| ...): drains the success body.
AndThen ==
    /\ pc = "Called"
    /\ UNCHANGED delivered
    /\ IF user_resp.ok
       THEN LET resp_bytes == read_body(user_resp.resp.body)
            IN  /\ trace' = Append(trace, "drain")
                /\ IF resp_bytes.ok
                   THEN /\ actix_resp' = [ status |-> user_resp.resp.status,
                                           headers |-> user_resp.resp.headers,
                                           body |-> resp_bytes.bytes ]
                        /\ pc' = "Materialized"
                        /\ UNCHANGED actix_err
                   ELSE /\ actix_err' = StreamError
                        /\ pc' = "Failed"
                        /\ UNCHANGED actix_resp
       ELSE /\ actix_err' = user_resp.err
            /\ pc' = "Failed"
            /\ UNCHANGED << actix_resp, trace >>
    /\ user_resp' = Moved(user_resp)
    /\ UNCHANGED << cfg, req, actix_req, content_type, is_binary, result >>

\* Variant of ErrorResponse that never drains the rendered body.
ErrorResponse_NoBody(e) ==
    [ status |-> render_response(e).status,
      headers |-> render_response(e).headers,
      body |-> << >> ]

\* Variant of ErrorResponse that falls back to a whole default response
\* (200, no headers) when the rendered body cannot be drained.
ErrorResponse_Default(e) ==
    LET actix_resp2 == render_response(e)
        resp_bytes == read_body(actix_resp2.body)
    IN  IF resp_bytes.ok
        THEN [ status |-> actix_resp2.status, headers |-> actix_resp2.headers,
               body |-> resp_bytes.bytes ]
        ELSE [ status |-> 200, headers |-> { }, body |-> << >> ]

\* The closure of unwrap_or_else: the rendered response with its body drained,
\* and Default::default() (no bytes) for a body that cannot be drained.
ErrorResponse(e) ==
    LET actix_resp2 == render_response(e)
        resp_bytes == read_body(actix_resp2.body)
    IN  [ status |-> actix_resp2.status,
          headers |-> actix_resp2.headers,
          body |-> IF resp_bytes.ok THEN resp_bytes.bytes ELSE << >> ]

\* .unwrap_or_else(|actix_err| ...): builds the error response from actix_err.
UnwrapOrElse ==
    /\ pc = "Failed"
    /\ UNCHANGED delivered
    /\ \E e \in (IF actix_err = StreamError THEN Errors ELSE { actix_err }) :
          /\ actix_err' = e
          /\ actix_resp' = ErrorResponse(e)
    /\ pc' = "Materialized"
    /\ trace' = trace \o << "render", "drain_error" >>
    /\ UNCHANGED << cfg, req, actix_req, user_resp, content_type, is_binary,
                    result >>

\* Variant of Classify that does not call the predicate for an empty content type.
Classify_SkipEmpty ==
    /\ pc = "Materialized"
    /\ UNCHANGED delivered
    /\ content_type' = ContentTypeOf(actix_resp.headers)
    /\ IF ContentTypeOf(actix_resp.headers) = ""
       THEN /\ is_binary' = FALSE
            /\ UNCHANGED trace
       ELSE /\ \E b \in CallPredicate(cfg, ContentTypeOf(actix_resp.headers)) :
                  is_binary' = b
            /\ trace' = Append(trace, "classify")
    /\ pc' = "Classified"
    /\ UNCHANGED << cfg, req, actix_req, user_resp, actix_err, actix_resp, result >>

\* content_type is read from the response head and binary_media_type_fn is called on it.
Classify ==
    /\ pc = "Materialized"
    /\ UNCHANGED delivered
    /\ content_type' = ContentTypeOf(actix_resp.headers)
    /\ \E b \in CallPredicate(cfg, ContentTypeOf(actix_resp.headers)) : is_binary' = b
    /\ pc' = "Classified"
    /\ trace' = Append(trace, "classify")
    /\ UNCHANGED << cfg, req, actix_req, user_resp, actix_err, actix_resp, result >>

\* Variant of LambdaBodyOf that sends bytes that are not UTF-8 as binary.
LambdaBodyOf_BinaryFallback(binary, resp_body_vec) ==
    IF binary \/ ~from_utf8(resp_body_vec).ok
    THEN [ok |-> TRUE, body |-> [kind |-> "Binary", data |-> resp_body_vec]]
    ELSE [ok |-> TRUE, body |-> [kind |-> "Text", data |-> resp_body_vec]]

\* let resp_body = if is_binary { Binary(vec) } else { Text(String::from_utf8(vec)?) };
LambdaBodyOf(binary, resp_body_vec) ==
    IF binary
    THEN [ok |-> TRUE, body |-> [kind |-> "Binary", data |-> resp_body_vec]]
    ELSE LET text == from_utf8(resp_body_vec)
         IN  IF text.ok
             THEN [ok |-> TRUE, body |-> [kind |-> "Text", data |-> text.string]]
             ELSE [ok |-> FALSE, body |-> [kind |-> "Empty", data |-> << >>]]

\* Variant of HandlerResult that reports a 5xx response as a handler error.
HandlerResult_ErrorOn5xx(binary, resp) ==
    LET resp_body == LambdaBodyOf(binary, resp.body)
    IN  IF resp_body.ok /\ resp.status < 500
        THEN [ kind |-> "response", status |-> resp.status,
               headers |-> resp.headers, body |-> resp_body.body ]
        ELSE [ kind |-> "error", status |-> 0, headers |-> { },
               body |-> [kind |-> "Empty", data |-> << >>] ]

\* What the handler returns: Ok(resp) with status and headers copied, or the
\* HandlerError made by `?` from the FromUtf8Error.
HandlerResult(binary, resp) ==
    LET resp_body == LambdaBodyOf(binary, resp.body)
    IN  IF resp_body.ok
        THEN [ kind |-> "response", status |-> resp.status,
               headers |-> resp.headers, body |-> resp_body.body ]
        ELSE [ kind |-> "error", status |-> 0, headers |-> { },
               body |-> resp_body.body ]

\* Variant of Reply that calls the service again after an encoding failure.
Reply_Retry ==
    /\ pc = "Classified"
    /\ UNCHANGED delivered
    /\ result' = HandlerResult(is_binary, actix_resp)
    /\ trace' = Append(trace, IF HandlerResult(is_binary, actix_resp).kind = "response"
                              THEN "reply" ELSE "error")
    /\ pc' = IF HandlerResult(is_binary, actix_resp).kind = "response"
             THEN "Done" ELSE "Normalized"
    /\ UNCHANGED << cfg, req, actix_req, user_resp, actix_err, actix_resp,
                    content_type, is_binary >>

\* The rest of the handler: the response body is encoded and the handler returns.
Reply ==
    /\ pc = "Classified"
    /\ UNCHANGED delivered
    /\ result' = HandlerResult(is_binary, actix_resp)
    /\ trace' = Append(trace, IF HandlerResult(is_binary, actix_resp).kind = "response"
                              THEN "reply" ELSE "error")
    /\ pc' = "Done"
    /\ UNCHANGED << cfg, req, actix_req, user_resp, actix_err, actix_resp,
                    content_type, is_binary >>

Next ==
    \/ SetBinaryMediaTypeFn
    \/ SetBinaryMediaTypes
    \/ Start
    \/ Receive
    \/ Normalize
    \/ Call
    \/ AndThen
    \/ UnwrapOrElse
    \/ Classify
    \/ Reply

Spec == Init /\ [][Next]_vars

\* ---------------------------------------------------------------- claims

Replies == Count(trace, "reply")

HandlerErrors == Count(trace, "error")

PredicateCalls == Count(trace, "classify")

\* The handler call for the current event is over: it returned or it panicked.
Ended == pc \in { "Done", "Panicked" }

HasOrigin == req.scheme # NoPart /\ req.authority # NoPart

\* The service call of the current invocation returned Err.
ServiceFailed == Count(trace, "call") = 1 /\ ~user_resp.ok

\* The service call returned Ok and draining the body of its response failed.
SuccessBodyFailed == user_resp.ok /\ actix_err # NoError

\* The rendered response of the error the fallback works on, and its drained body.
Rendered == render_response(actix_err)

RenderedBodyFails == Rendered.body.fails

RenderedBytes == IF RenderedBodyFails THEN << >> ELSE Concat(Rendered.body.chunks)

\* C1 as stated: every event delivered to the handler ends with exactly one
\* invocation response; no handler call returns without one and none gets
\* more than one.
C1_Original ==
    /\ Replies <= 1
    /\ pc = "Done" => (Replies = 1 /\ result.kind = "response")

\* C1 amended: an event with scheme and authority ends with exactly one
\* result, which is either one invocation response or one handler-level
\* error; an event without scheme or authority ends in a panic with neither;
\* no event ever has more than one result.
C1_ExactlyOneResult ==
    /\ Replies + HandlerErrors <= 1
    /\ (result.kind = "response") <=> (Replies = 1)
    /\ (result.kind = "error") <=> (HandlerErrors = 1)
    /\ pc = "Done" => (HasOrigin /\ Replies + HandlerErrors = 1)
    /\ pc = "Panicked" => (~HasOrigin /\ Replies + HandlerErrors = 0)
    /\ ~Ended => Replies + HandlerErrors = 0

C1_Witness ==
    /\ pc = "Done"
    /\ result.kind = "response"
    /\ Count(trace, "render") = 1

\* C2 as stated: when the service call fails the invocation always ends with
\* a response, never with a handler-level error.
C2_Original == (pc = "Done" /\ ServiceFailed) => result.kind = "response"

\* C2 amended: when the service call fails, the invocation ends with a response
\* that has the status and headers of the failure's rendered response and its
\* drained body (no bytes when draining fails), except when the predicate
\* returned false and those bytes are not valid UTF-8: then it ends with a
\* handler-level error.
C2_ServiceFailureRecovered ==
    (pc = "Done" /\ ServiceFailed) =>
        /\ actix_err = user_resp.err
        /\ IF ~is_binary /\ ~ValidUtf8From(RenderedBytes, 1)
           THEN result.kind = "error"
           ELSE /\ result.kind = "response"
                /\ result.status = Rendered.status
                /\ result.headers = Rendered.headers
                /\ result.body.data = RenderedBytes

C2_Witness ==
    /\ pc = "Done"
    /\ ServiceFailed
    /\ result.kind = "response"
    /\ result.status = 500
    /\ result.body.data = << 65 >>

\* C3 as stated: when the service call succeeds and draining the body of the
\* success response fails, the invocation ends with a handler-level error and
\* no error response is rendered for it.
C3_Original ==
    (pc = "Done" /\ SuccessBodyFailed) =>
        (result.kind = "error" /\ Count(trace, "render") = 0)

\* C3 amended: when the service call succeeds and draining the body of the
\* success response fails, the error is recovered like a service failure: it
\* is rendered, the rendered body is drained (no bytes on failure), the
\* predicate is applied and a response with the rendered status and headers
\* is returned; the invocation ends with a handler-level error only when the
\* predicate returned false and the rendered bytes are not valid UTF-8.
C3_SuccessBodyFailureRecovered ==
    /\ (pc \in { "Materialized", "Classified", "Done" } /\ SuccessBodyFailed) =>
          /\ Count(trace, "render") = 1
          /\ actix_resp.status = Rendered.status
          /\ actix_resp.headers = Rendered.headers
          /\ actix_resp.body = RenderedBytes
    /\ (pc = "Done" /\ SuccessBodyFailed) =>
          /\ PredicateCalls = 1
          /\ (result.kind = "error") <=>
                (~is_binary /\ ~ValidUtf8From(RenderedBytes, 1))
          /\ result.kind = "response" =>
                /\ result.status = Rendered.status
                /\ result.headers = Rendered.headers
                /\ result.body.data = RenderedBytes

C3_Witness ==
    /\ pc = "Done"
    /\ SuccessBodyFailed
    /\ result.kind = "response"
    /\ result.body.data = << 65 >>

\* C4: when the service call fails and draining the rendered error body fails
\* too, the handler returns a response with the rendered status and headers
\* and no body bytes, after applying the predicate to its content type; when
\* the predicate returned false the body is the text variant, empty.
C4_DoubleFailureEmptyBody ==
    (pc = "Done" /\ ServiceFailed /\ RenderedBodyFails) =>
        /\ PredicateCalls = 1
        /\ content_type = ContentTypeOf(Rendered.headers)
        /\ result.kind = "response"
        /\ result.status = Rendered.status
        /\ result.headers = Rendered.headers
        /\ result.body.data = << >>
        /\ result.body.kind = (IF is_binary THEN "Binary" ELSE "Text")

C4_Witness ==
    /\ pc = "Done"
    /\ ServiceFailed
    /\ RenderedBodyFails
    /\ Rendered.body.chunks # << >>
    /\ Rendered.status = 500
    /\ ~is_binary
    /\ result.body = [kind |-> "Text", data |-> << >>]

\* C5: when the predicate returned false and the materialized body is not
\* valid UTF-8 the handler returns the encoding error; such a body is never
\* returned as binary and a text body never holds invalid UTF-8.
C5_InvalidTextIsError ==
    /\ (pc = "Done" /\ ~is_binary /\ ~ValidUtf8From(actix_resp.body, 1)) =>
          result.kind = "error"
    /\ result.body.kind = "Text" => ValidUtf8From(result.body.data, 1)
    /\ result.body.kind = "Binary" => is_binary

C5_Witness ==
    /\ pc = "Done"
    /\ ~is_binary
    /\ actix_resp.body = << 65, 195 >>
    /\ result.kind = "error"

\* C6: every response the handler returns carries exactly the materialized
\* bytes, as the binary variant when the predicate returned true and as the
\* text variant otherwise.
C6_BodyRoundTrip ==
    result.kind = "response" =>
        /\ result.body.data = actix_resp.body
        /\ (result.body.kind = "Binary") <=> is_binary
        /\ (result.body.kind = "Text") <=> ~is_binary

C6_Witness ==
    /\ result.kind = "response"
    /\ result.body = [kind |-> "Text", data |-> << 195, 169 >>]

\* C7 as stated: the predicate is invoked exactly once for every event, never
\* zero times and never twice.
C7_Original ==
    /\ PredicateCalls <= 1
    /\ Ended => PredicateCalls = 1

\* C7 amended: for every event that has scheme and authority the predicate is
\* invoked exactly once by the time the handler returns, on every path
\* (service success, service failure, body failure on either path), and never
\* twice; for an event without scheme or authority the handler panics before
\* the predicate is invoked.
C7_PredicateOncePerCall ==
    /\ PredicateCalls <= 1
    /\ pc \in { "Classified", "Done" } <=> PredicateCalls = 1
    /\ pc = "Done" => HasOrigin
    /\ pc = "Panicked" => ~HasOrigin

C7_Witness ==
    /\ pc = "Done"
    /\ SuccessBodyFailed
    /\ RenderedBodyFails
    /\ PredicateCalls = 1

\* Every position of a stage of set later comes after every position of a
\* stage of set earlier in the trace.
Precedes(earlier, later) ==
    \A i, j \in 1..Len(trace) :
        (trace[i] \in earlier /\ trace[j] \in later) => i < j

\* C8: within one invocation normalization is complete before the service
\* call starts, the service call has returned before any body is drained, and
\* classification, encoding and the reply come after all draining.
C8_StagesOrdered ==
    /\ Precedes({ "normalize" }, { "call" })
    /\ Precedes({ "call" }, { "drain", "render", "drain_error" })
    /\ Precedes({ "drain", "render", "drain_error" }, { "classify" })
    /\ Precedes({ "classify" }, { "reply", "error" })
    /\ Count(trace, "call") >= 1 =>
          (Count(trace, "normalize") = 1 /\ actix_req.uri.scheme # NoPart)
    /\ (\E i \in 1..Len(trace) : trace[i] \in { "drain", "drain_error" }) =>
          Count(trace, "call") = 1
    /\ PredicateCalls >= 1 =>
          (\E i \in 1..Len(trace) : trace[i] \in { "drain", "drain_error" })
    /\ Replies + HandlerErrors >= 1 => PredicateCalls = 1
    /\ pc = "Called" => (actix_req # NoRequest /\ actix_resp = NoBytesResp)

C8_Witness ==
    trace = << "normalize", "call", "drain", "render", "drain_error",
               "classify", "reply" >>

\* The actix request of the current invocation has been built.
RequestBuilt == actix_req # NoRequest

\* [("q","a b"),("q","c&d")]
ScenarioQuery ==
    << << <<113>>, <<97, 32, 98>> >>, << <<113>>, <<99, 38, 100>> >> >>

\* "/items?q=a%20b&q=c%26d"
ScenarioPathAndQuery ==
    << 47, 105, 116, 101, 109, 115, 63, 113, 61, 97, 37, 50, 48, 98,
       38, 113, 61, 99, 37, 50, 54, 100 >>

\* C9: the rebuilt URI is scheme, authority, the event's path and then the
\* pairs in order, '?' before the first and '&' before each later one, nothing
\* appended when there are no pairs; path /items with (q,'a b'),(q,'c&d')
\* gives /items?q=a%20b&q=c%26d.
C9_Original ==
    RequestBuilt =>
        /\ actix_req.uri.scheme = req.scheme
        /\ actix_req.uri.authority = req.authority
        /\ req.query = << >> => actix_req.uri.path_and_query = req.path
        /\ req.query # << >> =>
              /\ Len(actix_req.uri.path_and_query) > Len(req.path)
              /\ SubSeq(actix_req.uri.path_and_query, 1, Len(req.path) + 1)
                    = req.path \o << 63 >>
        /\ (req.path = ItemsPath /\ req.query = ScenarioQuery) =>
              actix_req.uri.path_and_query = ScenarioPathAndQuery

\* Value of the hexadecimal digit with ASCII code c, -1 for any other byte.
HexValue(c) ==
    IF c >= 48 /\ c <= 57 THEN c - 48
    ELSE IF c >= 65 /\ c <= 70 THEN c - 55
    ELSE IF c >= 97 /\ c <= 102 THEN c - 87
    ELSE -1

RECURSIVE PercentDecode(_)
\* Percent-decoding of one segment: %XY becomes the byte XY.
PercentDecode(s) ==
    IF s = << >> THEN << >>
    ELSE IF Head(s) = 37 /\ Len(s) >= 3 /\ HexValue(s[2]) >= 0 /\ HexValue(s[3]) >= 0
         THEN << 16 * HexValue(s[2]) + HexValue(s[3]) >>
              \o PercentDecode(SubSeq(s, 4, Len(s)))
         ELSE << Head(s) >> \o PercentDecode(Tail(s))

RECURSIVE SplitOn(_, _)
\* The segments of s between the occurrences of the byte sep.
SplitOn(s, sep) ==
    IF FirstIndex(s, sep) = 0 THEN << s >>
    ELSE << SubSeq(s, 1, FirstIndex(s, sep) - 1) >>
         \o SplitOn(SubSeq(s, FirstIndex(s, sep) + 1, Len(s)), sep)

\* One key=value segment, split at its first '=' and decoded.
DecodePair(seg) ==
    IF FirstIndex(seg, 61) = 0 THEN << PercentDecode(seg), << >> >>
    ELSE << PercentDecode(SubSeq(seg, 1, FirstIndex(seg, 61) - 1)),
            PercentDecode(SubSeq(seg, FirstIndex(seg, 61) + 1, Len(seg))) >>

\* The pairs a reader of the query string gets: split on '&', then on '=',
\* each part percent-decoded.
ParseQuery(q) ==
    IF q = << >> THEN << >>
    ELSE [ i \in 1..Len(SplitOn(q, 38)) |-> DecodePair(SplitOn(q, 38)[i]) ]

\* The query string of the rebuilt URI: what follows path and '?'.
RebuiltQuery ==
    SubSeq(actix_req.uri.path_and_query, Len(req.path) + 2,
           Len(actix_req.uri.path_and_query))

\* C10: splitting the rebuilt query string on '&' and '=' and percent-decoding
\* each part gives back the event's key/value pairs in order, whatever
\* characters they hold, and the rebuilt query string has no '%' that does not
\* start an escape.
C10_Original ==
    RequestBuilt =>
        /\ ParseQuery(RebuiltQuery) = req.query
        /\ \A i \in 1..Len(RebuiltQuery) :
              RebuiltQuery[i] = 37 =>
                  /\ i + 2 <= Len(RebuiltQuery)
                  /\ HexValue(RebuiltQuery[i + 1]) >= 0
                  /\ HexValue(RebuiltQuery[i + 2]) >= 0

\* What a second run of the normalization makes of the event as the first run
\* left it.
SecondRun == BuildRequest(req)

\* C11 as stated: normalizing the same event a second time gives a request
\* with the same URI and the same header set as the first run.
C11_Original ==
    RequestBuilt =>
        /\ SecondRun.ok
        /\ SecondRun.request.uri = actix_req.uri
        /\ SecondRun.request.headers = actix_req.headers

\* C11 amended: normalizing the same event a second time gives a request with
\* the same method and the same URI as the first run, but with an empty header
\* set and an empty payload, because the first run moved headers and body out
\* of the event; the header sets agree only for an event without headers.
C11_SecondRunSameUri ==
    RequestBuilt =>
        /\ SecondRun.ok
        /\ SecondRun.request.method = actix_req.method
        /\ SecondRun.request.uri = actix_req.uri
        /\ SecondRun.request.headers = { }
        /\ SecondRun.request.payload = << >>
        /\ req.headers = { }
        /\ req.body.data = << >>

C11_Witness ==
    /\ pc = "Normalized"
    /\ req.query = ScenarioQuery
    /\ actix_req.headers # { }
    /\ actix_req.payload = << 97 >>
    /\ SecondRun.request.uri = actix_req.uri

\* The strings listed in the predicate built by binary_media_types.
ListedTypes == { cfg.types[i] : i \in 1..Len(cfg.types) }

\* C12: the predicate built by binary_media_types returns true exactly when
\* the content type equals one of the listed strings; with the list
\* [application/octet-stream] a response of that content type is returned as
\* the binary variant and a text/plain response as the text variant.
C12_ListMembership ==
    (cfg.kind = "types" /\ pc \in { "Classified", "Done" }) =>
        /\ is_binary <=> (content_type \in ListedTypes)
        /\ result.kind = "response" =>
              (result.body.kind = "Binary" <=> content_type \in ListedTypes)
        /\ (pc = "Done" /\ cfg.types = << "application/octet-stream" >>) =>
              /\ content_type = "application/octet-stream" =>
                    (result.kind = "response" /\ result.body.kind = "Binary")
              /\ (content_type = "text/plain" /\ result.kind = "response") =>
                    result.body.kind = "Text"
              /\ (content_type = "text/plain" /\ result.kind = "error") =>
                    ~ValidUtf8From(actix_resp.body, 1)

C12_Witness ==
    /\ pc = "Done"
    /\ cfg = TypesFn(<< "application/octet-stream" >>)
    /\ content_type = "application/octet-stream"
    /\ result.kind = "response"
    /\ result.body = [kind |-> "Binary", data |-> << 169, 65 >>]

\* C13: when no classification function is configured the predicate returns
\* false for every content type, so no binary body is ever produced: a handler
\* call that returns gives a text body or the encoding error.
C13_DefaultNeverBinary ==
    cfg = DefaultFn =>
        /\ ~is_binary
        /\ result.body.kind # "Binary"
        /\ pc = "Done" =>
              \/ result.kind = "response" /\ result.body.kind = "Text"
              \/ result.kind = "error" /\ ~ValidUtf8From(actix_resp.body, 1)

C13_Witness ==
    /\ pc = "Done"
    /\ cfg = DefaultFn
    /\ content_type = "application/octet-stream"
    /\ result.kind = "response"
    /\ result.body = [kind |-> "Text", data |-> << 195, 169 >>]

\* C14: read_body returns the chunks of a body that ends normally
\* concatenated in the order they were yielded (no bytes for no chunks); for a
\* body that yields an error after its chunks it returns the error and none
\* of the bytes folded so far. Seen at both places that drain a body: the
\* success body in and_then and the rendered error body in unwrap_or_else.
C14_ReadBodyFold ==
    [][ /\ (pc = "Called" /\ user_resp.ok) =>
              IF user_resp.resp.body.fails
              THEN /\ pc' = "Failed"
                   /\ actix_err' = StreamError
                   /\ actix_resp' = NoBytesResp
              ELSE /\ pc' = "Materialized"
                   /\ actix_err' = NoError
                   /\ actix_resp'.body = Concat(user_resp.resp.body.chunks)
        /\ pc = "Failed" =>
              /\ actix_err' \in Errors
              /\ actix_resp'.body =
                    IF render_response(actix_err').body.fails THEN << >>
                    ELSE Concat(render_response(actix_err').body.chunks)
      ]_vars

C14_Witness ==
    /\ pc = "Materialized"
    /\ user_resp.ok
    /\ actix_err = NoError
    /\ actix_resp.body = << 195, 169 >>

ServiceCalls == Count(trace, "call")

\* C15: the wrapped service is called once per invocation: never a second
\* time, whatever failed (service, body draining, encoding), and the handler
\* never returns a response or an error without having called it.
C15_ServiceCalledOnce ==
    /\ ServiceCalls <= 1
    /\ pc \in { "Called", "Failed", "Materialized", "Classified", "Done" }
          <=> ServiceCalls = 1
    /\ (Replies + HandlerErrors >= 1 \/ result.kind # "none") => ServiceCalls = 1

C15_Witness ==
    /\ pc = "Done"
    /\ SuccessBodyFailed
    /\ RenderedBodyFails
    /\ ServiceCalls = 1
    /\ result.kind = "response"

\* The handler is working on an event: it has neither returned nor panicked.
InFlight ==
    pc \in { "Received", "Normalized", "Called", "Failed", "Materialized",
             "Classified" }

\* C16: one adapter instance handles one invocation at a time and in the
\* order of delivery: event k+1 is taken only when the handler has returned
\* for event k (its service call and all body draining are over and a response
\* or an error is produced), no event is taken while one is in flight, events
\* are taken one by one, and every stage works on the event last delivered.
C16_Sequential ==
    [][ /\ delivered' # delivered =>
              /\ delivered' = delivered + 1
              /\ pc \in { "Idle", "Done" }
              /\ pc' = "Received"
              /\ trace' = << >>
              /\ pc = "Done" =>
                    /\ result.kind \in { "response", "error" }
                    /\ Count(trace, "call") = 1
                    /\ Count(trace, "drain") + Count(trace, "drain_error") >= 1
                    /\ trace[Len(trace)] \in { "reply", "error" }
        /\ InFlight =>
              /\ delivered' = delivered
              /\ delivered >= 1
              /\ req' \in { req, TakenEvent(req) }
      ]_vars

C16_Witness ==
    /\ delivered = 2
    /\ pc = "Done"
    /\ Count(trace, "drain") = 1
    /\ result.kind = "response"

\* C17: for an event without scheme or without authority the invocation
\* fails during normalization: the handler panics, the service is never
\* called, the predicate is never invoked and nothing is returned.
C17_MissingOriginFatal ==
    /\ (delivered >= 1 /\ ~HasOrigin) =>
          /\ pc \in { "Received", "Panicked" }
          /\ actix_req = NoRequest
          /\ ServiceCalls = 0
          /\ PredicateCalls = 0
          /\ Replies + HandlerErrors = 0
          /\ result = NoResult
    /\ pc = "Panicked" => (~HasOrigin /\ trace = << "panic" >>)

C17_Witness ==
    /\ pc = "Panicked"
    /\ req.scheme = "https"
    /\ req.authority = NoPart
    /\ req.query = ScenarioQuery

\* The content-type string of a header map: the value of the header when it
\* is present and a string, the empty string otherwise.
HeaderString(headers) ==
    IF \E h \in headers : h[1] = "content-type" /\ h[2].visible
    THEN (CHOOSE h \in headers : h[1] = "content-type" /\ h[2].visible)[2].raw
    ELSE ""

\* C18: the string passed to the predicate is the content-type value of the
\* response that is replied, the service's response on the success path and
\* the rendered error response on the failure path, and the empty string when
\* that header is absent or is not a string.
C18_PredicateArgument ==
    [][ /\ (pc = "Called" /\ user_resp.ok /\ pc' = "Materialized") =>
              actix_resp'.headers = user_resp.resp.headers
        /\ pc = "Failed" =>
              actix_resp'.headers = render_response(actix_err').headers
        /\ pc = "Materialized" =>
              /\ Count(trace', "classify") = 1
              /\ content_type' = HeaderString(actix_resp.headers)
              /\ actix_resp' = actix_resp
        /\ (pc = "Classified" /\ result'.kind = "response") =>
              /\ result'.headers = actix_resp.headers
              /\ content_type = HeaderString(result'.headers)
      ]_vars

C18_Witness ==
    /\ pc = "Done"
    /\ ServiceFailed
    /\ result.kind = "response"
    /\ result.headers # { }
    /\ content_type = ""

\* C19: for an event with scheme and authority the handler returns a
\* handler-level error exactly when the predicate returned false and the final
\* body bytes are not valid UTF-8; in every other case, service failures and
\* body failures included, it returns a response.
C19_ErrorIffInvalidText ==
    (delivered >= 1 /\ HasOrigin) =>
        /\ pc # "Panicked"
        /\ pc # "Done" => result.kind = "none"
        /\ pc = "Done" =>
              /\ result.kind = "error" <=>
                    (~is_binary /\ ~ValidUtf8From(actix_resp.body, 1))
              /\ result.kind = "response" <=>
                    (is_binary \/ ValidUtf8From(actix_resp.body, 1))

C19_Witness ==
    /\ pc = "Done"
    /\ ServiceFailed
    /\ Rendered.status = 500
    /\ actix_resp.body = << 169 >>
    /\ result.kind = "error"

====
